---- MODULE Spec2Model ----
(***************************************************************************)
(* Duplicate-pattern detection engine (src/src/detector.ts, the budgeted   *)
(* version at lines 1-441): block extraction, the block cap, tokenizing,   *)
(* the inverted index, candidate selection, the budgeted comparison loop   *)
(* and the final sort.                                                     *)
(*                                                                         *)
(* A source line is modelled by what the code reads from it:               *)
(*   start  - the trimmed line passes the region-start test (l.139-146)    *)
(*   open   - number of '{' characters, close - number of '}' characters   *)
(*   kind   - "blank" (trim() is empty), "comment" (trim() starts with     *)
(*            "//") or "code"                                              *)
(*   marks  - the categorizePattern triggers the lower-cased line contains *)
(*   words  - the fragments the line leaves after normalizeCode and the    *)
(*            split of tokenize (comments leave none)                      *)
(* A similarity is the fraction <<n, d>>, d > 0, compared by cross         *)
(* multiplication.                                                         *)
(*                                                                         *)
(* categorizePattern, normalizeCode (on a text of characters) and          *)
(* jaccardSimilarity are also called on their own; analyzePatterns and     *)
(* generateSummary (src/src/index.ts) are applied to what a run returned.  *)
(***************************************************************************)
EXTENDS Integers, Sequences, FiniteSets, TLC

VARIABLES
    ex,                          \* one extractCodeBlocks call: its locals
    pc,                          \* position of the detectDuplicatePatterns run
    files,                       \* argument: FileContent[]
    opts,                        \* argument: DetectionOptions
    allBlocks,                   \* CodeBlock[]
    blockTokens,                 \* string[][]
    invertedIndex,               \* token -> block ids, in push order
    i,                           \* outer loop index (0-based)
    candidates,                  \* approx mode: [j, shared] list of block i
    pos,                         \* inner loop: next candidate (approx) or j (exact)
    comparisonsProcessed,
    comparisonsBudgetExhausted,
    duplicates,                  \* matches in push order
    returned,                    \* the resolved value of the promise
    scored,                      \* history: pairs <<i, j>> whose similarity was computed
    other,                       \* the locals of a second detectDuplicatePatterns run
    summary,                     \* what generateSummary(analyzePatterns(...)) returned
    pf                           \* one call of a pure helper: arguments and results

vars == <<ex, pc, files, opts, allBlocks, blockTokens, invertedIndex, i,
          candidates, pos, comparisonsProcessed, comparisonsBudgetExhausted,
          duplicates, returned, scored, other, summary, pf>>

detectVarsOfRun == <<pc, files, opts, allBlocks, blockTokens, invertedIndex, i,
                     candidates, pos, comparisonsProcessed,
                     comparisonsBudgetExhausted, duplicates, returned, scored>>

detectVars == <<pc, files, opts, allBlocks, blockTokens, invertedIndex, i,
                candidates, pos, comparisonsProcessed,
                comparisonsBudgetExhausted, duplicates, returned, scored,
                other, summary, pf>>

-----------------------------------------------------------------------------
(* Bounds *)

\* longest file text given to one extractCodeBlocks call
MaxLines == 4

\* largest minLines given to one extractCodeBlocks call
MaxMinLines == 3

\* most files given to one detectDuplicatePatterns run
MaxFiles == 2

\* largest small comparison budget
MaxBudget == 2

\* the small block cap
BlockCap == 2

\* largest small batchSize
MaxBatch == 3

\* most triggers written into one text given to categorizePattern
MaxMarks == 3

\* longest text, in characters, given to normalizeCode
MaxChars == 5

\* longest token list given to jaccardSimilarity
MaxTokens == 3

-----------------------------------------------------------------------------
(* Defaults of DetectionOptions (detector.ts lines 259-265) *)

DefaultMaxBlocks == 500

DefaultBatchSize == 100

DefaultMinSharedTokens == 8

DefaultMaxCandidatesPerBlock == 100

DefaultMaxComparisons == 50000

-----------------------------------------------------------------------------
(* Generic sequence helpers *)

\* F(x), F(x1, x2) with the arguments evaluated once, before F is applied
Once(F(_), x) == CHOOSE y \in {F(v) : v \in {x}} : TRUE

Once2(F(_, _), x1, x2) == CHOOSE y \in {F(v1, v2) : v1 \in {x1}, v2 \in {x2}} : TRUE

RECURSIVE FlattenFrom(_)
FlattenFrom(ss) ==
    IF ss = <<>> THEN <<>> ELSE Head(ss) \o Once(FlattenFrom, Tail(ss))

Flatten(ss) == Once(FlattenFrom, ss)

Range(s) == {s[n] : n \in 1..Len(s)}

Prefix(s, n) == IF n >= Len(s) THEN s ELSE SubSeq(s, 1, n)

SeqsUpTo(S, n) == UNION {[1..m -> S] : m \in 0..n}

-----------------------------------------------------------------------------
(* Source lines *)

MkLine(start, open, close, kind, marks, words) ==
    [start |-> start, open |-> open, close |-> close, kind |-> kind,
     marks |-> marks, words |-> words]

\* "function load(req) {"
FnLoad == MkLine(TRUE, 1, 0, "code", {"function"}, <<"function", "load", "req">>)

\* "function save(req) {"
FnSave == MkLine(TRUE, 1, 0, "code", {"function"}, <<"function", "save", "req">>)

\* "  return fetch(req);"
RetFetch == MkLine(FALSE, 0, 0, "code", {"return "}, <<"return", "fetch", "req">>)

\* "  this.store.validate(req);"
ThisValidate == MkLine(FALSE, 0, 0, "code", {"this", "this.", "validate"},
                       <<"this", "store", "validate", "req">>)

\* "}"
Close == MkLine(FALSE, 0, 1, "code", {}, <<>>)

\* ""
Blank == MkLine(FALSE, 0, 0, "blank", {}, <<>>)

\* "// helper"
Comment == MkLine(FALSE, 0, 0, "comment", {}, <<>>)

\* "const pick = (id) => id.key;"
Arrow == MkLine(TRUE, 0, 0, "code", {"=>"},
                <<"const", "pick", "=", "id", "=>", "id", "key">>)

\* "class repo {"
ClassOpen == MkLine(FALSE, 1, 0, "code", {"class "}, <<"class", "repo">>)

Lines == {FnLoad, RetFetch, Close, Blank, Comment, Arrow, ClassOpen}

-----------------------------------------------------------------------------
(* categorizePattern *)

Includes(content, trigger) == \E n \in 1..Len(content) : trigger \in content[n].marks

\* the chain with the class-method test moved to the front
categorizeClassFirst(code) ==
    IF Includes(code, "class ") \/ Includes(code, "this.")
    THEN "class-method"
    ELSE IF \/ Includes(code, "request") /\ Includes(code, "response")
            \/ Includes(code, "router.")
            \/ Includes(code, "express")
    THEN "api-handler"
    ELSE IF Includes(code, "validate") \/ Includes(code, "schema")
    THEN "validator"
    ELSE "unknown"

categorizePattern(code) ==
    IF \/ Includes(code, "request") /\ Includes(code, "response")
       \/ Includes(code, "router.")
       \/ Includes(code, "app.get")
       \/ Includes(code, "app.post")
       \/ Includes(code, "express")
       \/ Includes(code, "ctx.body")
    THEN "api-handler"
    ELSE IF \/ Includes(code, "validate")
            \/ Includes(code, "schema")
            \/ Includes(code, "zod")
            \/ Includes(code, "yup")
            \/ Includes(code, "if") /\ Includes(code, "throw")
    THEN "validator"
    ELSE IF \/ Includes(code, "return (")
            \/ Includes(code, "jsx")
            \/ Includes(code, "component")
            \/ Includes(code, "props")
    THEN "component"
    ELSE IF Includes(code, "class ") \/ Includes(code, "this.")
    THEN "class-method"
    ELSE IF /\ Includes(code, "return ")
            /\ ~Includes(code, "this")
            /\ ~Includes(code, "new ")
    THEN "utility"
    ELSE IF Includes(code, "function") \/ Includes(code, "=>")
    THEN "function"
    ELSE "unknown"

-----------------------------------------------------------------------------
(* extractCodeBlocks *)

\* currentBlock.filter(l => l.trim() && !l.trim().startsWith('//')).length
IsCode(l) == l.kind = "code"

CountCode(ls) == Len(SelectSeq(ls, IsCode))

ExtractInit(content, minLines) ==
    [lines |-> content, minLines |-> minLines, i |-> 0,
     currentBlock |-> <<>>, blockStart |-> 0, braceDepth |-> 0,
     inFunction |-> FALSE, blocks |-> <<>>]

\* one iteration of the for loop over lines
ExtractLine(st) ==
    LET line     == st.lines[st.i + 1]
        opening  == ~st.inFunction /\ line.start
        inFn     == st.inFunction \/ opening
        bStart   == IF opening THEN st.i ELSE st.blockStart
        depth    == st.braceDepth + line.open - line.close
        cur      == IF inFn THEN Append(st.currentBlock, line) ELSE st.currentBlock
    IN  IF inFn /\ depth = 0 /\ Len(cur) >= st.minLines
        THEN [st EXCEPT !.i = st.i + 1,
                        !.blockStart = bStart,
                        !.braceDepth = depth,
                        !.blocks = Append(st.blocks,
                                     [content      |-> cur,
                                      startLine    |-> bStart + 1,
                                      patternType  |-> categorizePattern(cur),
                                      linesOfCode  |-> CountCode(cur)]),
                        !.currentBlock = <<>>,
                        !.inFunction = FALSE]
        ELSE IF inFn /\ depth = 0
        THEN [st EXCEPT !.i = st.i + 1,
                        !.blockStart = bStart,
                        !.braceDepth = depth,
                        !.currentBlock = <<>>,
                        !.inFunction = FALSE]
        ELSE [st EXCEPT !.i = st.i + 1,
                        !.blockStart = bStart,
                        !.braceDepth = depth,
                        !.currentBlock = cur,
                        !.inFunction = inFn]

RECURSIVE ExtractRun(_)
ExtractRun(st) ==
    IF st.i >= Len(st.lines) THEN st ELSE Once(ExtractRun, ExtractLine(st))

extractCodeBlocks(content, minLines) ==
    Once(ExtractRun, ExtractInit(content, minLines)).blocks

-----------------------------------------------------------------------------
(* External primitives of @aiready/core (imported at detector.ts line 1),   *)
(* modelled on the fragments of a text                                      *)

\* estimateTokens(text): a non-negative integer that grows with the text
estimateTokens(content) == Len(Flatten([n \in 1..Len(content) |-> content[n].words]))

Min3(a, b, c) == IF a <= b /\ a <= c THEN a ELSE IF b <= c THEN b ELSE c

\* one row of the edit-distance table: row[k + 1] is the distance of the
\* prefix read so far to the first k fragments of b
RECURSIVE LevRowFrom(_, _, _, _)
LevRowFrom(prev, x, b, acc) ==
    LET k == Len(acc)
    IN  IF k > Len(b) THEN acc
        ELSE Once(LAMBDA next : LevRowFrom(prev, x, b, next),
                  Append(acc, Min3(prev[k + 1] + 1,
                                   acc[k] + 1,
                                   prev[k] + (IF x = b[k] THEN 0 ELSE 1))))

RECURSIVE LevFrom(_, _, _)
LevFrom(row, a, b) ==
    IF a = <<>> THEN row[Len(b) + 1]
    ELSE Once2(LAMBDA next, rest : LevFrom(next, rest, b),
               LevRowFrom(row, Head(a), b, <<row[1] + 1>>), Tail(a))

Levenshtein(a, b) == LevFrom([k \in 1..(Len(b) + 1) |-> k - 1], a, b)

ScoreOf(a, b) ==
    LET longest == IF Len(a) >= Len(b) THEN Len(a) ELSE Len(b)
    IN  IF longest = 0 THEN <<1, 1>> ELSE <<longest - Levenshtein(a, b), longest>>

\* similarityScore(a, b): the normalized edit-distance similarity, in [0,1]
similarityScore(a, b) == Once2(ScoreOf, a, b)

-----------------------------------------------------------------------------
(* Similarities as fractions *)

SimGeq(a, b) == a[1] * b[2] >= b[1] * a[2]

SimEq(a, b) == a[1] * b[2] = b[1] * a[2]

SimGt(a, b) == a[1] * b[2] > b[1] * a[2]

-----------------------------------------------------------------------------
(* Blocks of all files, block cap *)

\* the fragments of normalizeCode(block.content), split as tokenize splits
NormalizedWords(content) == Flatten([n \in 1..Len(content) |-> content[n].words])

\* { ...block, file, normalized, tokenCost } (lines 271-276)
CodeBlock(block, file) ==
    [content     |-> block.content,
     startLine   |-> block.startLine,
     patternType |-> block.patternType,
     linesOfCode |-> block.linesOfCode,
     file        |-> file,
     normalized  |-> NormalizedWords(block.content),
     tokenCost   |-> estimateTokens(block.content)]

MapBlocks(bs, file) == [n \in 1..Len(bs) |-> CodeBlock(bs[n], file)]

BlocksOfFile(f, minLines) ==
    Once2(MapBlocks, extractCodeBlocks(f.content, minLines), f.file)

ExtractAll(fs, minLines) == Flatten([n \in 1..Len(fs) |-> BlocksOfFile(fs[n], minLines)])

compareBlocksAscending(a, b) == a.linesOfCode - b.linesOfCode

\* (a, b) => b.linesOfCode - a.linesOfCode
compareBlocks(a, b) == b.linesOfCode - a.linesOfCode

\* Array.prototype.sort is stable: x goes before the first element that the
\* comparator orders after it
InsertBlock(sorted, x) ==
    LET after == {n \in 1..Len(sorted) : compareBlocks(sorted[n], x) > 0}
        at    == IF after = {} THEN Len(sorted) + 1
                 ELSE CHOOSE n \in after : \A m \in after : n <= m
    IN  SubSeq(sorted, 1, at - 1) \o <<x>> \o SubSeq(sorted, at, Len(sorted))

RECURSIVE SortBlocksFrom(_, _)
SortBlocksFrom(sorted, rest) ==
    IF rest = <<>> THEN sorted
    ELSE Once2(SortBlocksFrom, InsertBlock(sorted, Head(rest)), Tail(rest))

SortBlocks(bs) == Once2(SortBlocksFrom, <<>>, bs)

Capped(bs, maxBlocks) ==
    IF Len(bs) > maxBlocks THEN Prefix(SortBlocks(bs), maxBlocks) ELSE bs

\* lines 282-288
LimitBlocks(bs, maxBlocks) == Once2(Capped, bs, maxBlocks)

-----------------------------------------------------------------------------
(* Tokenizer and inverted index *)

stopwords ==
    {"return", "const", "let", "var", "function", "class", "new", "if", "else",
     "for", "while", "async", "await", "try", "catch", "switch", "case",
     "default", "import", "export", "from", "true", "false", "null",
     "undefined", "this"}

\* the catalogue's fragments are lower-case, so t.toLowerCase() is t
keepToken(t) == Len(t) >= 3 /\ t \notin stopwords

tokenize(norm) == SelectSeq(norm, keepToken)

Occurrences(toks, t) == SelectSeq(toks, LAMBDA x : x = t)

\* arr.push(i) once per occurrence of tok in blockTokens[i], i ascending
Postings(bt, tok) ==
    Flatten([n \in 1..Len(bt) |-> [m \in 1..Len(Occurrences(bt[n], tok)) |-> n - 1]])

BuildIndex(bt, approx) ==
    IF approx
    THEN [tok \in UNION {Range(bt[n]) : n \in 1..Len(bt)} |-> Postings(bt, tok)]
    ELSE [tok \in {} |-> <<>>]

-----------------------------------------------------------------------------
(* Candidate selection (approximate mode) *)

sameFileNever(block1, block2) == FALSE

\* allBlocks[j].file === block1.file (line 361), block1.file === block2.file
\* (line 407)
sameFile(block1, block2) == block1.file = block2.file

\* the postings taken in both directions
HitsBothDirections(blocks, bt, index, bi) ==
    LET another(j) == j # bi /\ ~sameFile(blocks[j + 1], blocks[bi + 1])
        ofTok(tok) == IF tok \in DOMAIN index
                      THEN SelectSeq(index[tok], another) ELSE <<>>
    IN  Flatten([n \in 1..Len(bt[bi + 1]) |-> ofTok(bt[bi + 1][n])])

\* the j reached from block i, in the order the two nested loops reach them
Hits(blocks, bt, index, bi) ==
    LET forward(j) == j > bi /\ ~sameFile(blocks[j + 1], blocks[bi + 1])
        ofTok(tok) == IF tok \in DOMAIN index
                      THEN SelectSeq(index[tok], forward) ELSE <<>>
    IN  Flatten([n \in 1..Len(bt[bi + 1]) |-> ofTok(bt[bi + 1][n])])

CountHitNoMap(counts, j) == Append(counts, [j |-> j, shared |-> 1])

\* counts.set(j, (counts.get(j) || 0) + 1); a Map keeps first-insertion order
CountHit(counts, j) ==
    IF \E n \in 1..Len(counts) : counts[n].j = j
    THEN [n \in 1..Len(counts) |->
            IF counts[n].j = j
            THEN [j |-> j, shared |-> counts[n].shared + 1]
            ELSE counts[n]]
    ELSE Append(counts, [j |-> j, shared |-> 1])

RECURSIVE CountHits(_, _)
CountHits(counts, hits) ==
    IF hits = <<>> THEN counts
    ELSE Once2(CountHits, CountHit(counts, Head(hits)), Tail(hits))

\* (a, b) => b[1] - a[1]
compareCandidates(a, b) == b.shared - a.shared

InsertCandidate(sorted, x) ==
    LET after == {n \in 1..Len(sorted) : compareCandidates(sorted[n], x) > 0}
        at    == IF after = {} THEN Len(sorted) + 1
                 ELSE CHOOSE n \in after : \A m \in after : n <= m
    IN  SubSeq(sorted, 1, at - 1) \o <<x>> \o SubSeq(sorted, at, Len(sorted))

RECURSIVE SortCandidatesFrom(_, _)
SortCandidatesFrom(sorted, rest) ==
    IF rest = <<>> THEN sorted
    ELSE Once2(SortCandidatesFrom, InsertCandidate(sorted, Head(rest)), Tail(rest))

Candidates(blocks, bt, index, bi, minSharedTokens, maxCandidatesPerBlock) ==
    LET counts   == Once2(CountHits, <<>>, Hits(blocks, bt, index, bi))
        enough(c) == c.shared >= minSharedTokens
    IN  Once2(Prefix,
              Once2(SortCandidatesFrom, <<>>, SelectSeq(counts, enough)),
              maxCandidatesPerBlock)

-----------------------------------------------------------------------------
(* Similarity engine *)

\* the sizes of the lists taken for the sizes of the sets
jaccardOfLists(tokens1, tokens2) ==
    LET intersection == Cardinality({t \in Range(tokens1) : t \in Range(tokens2)})
        union        == Len(tokens1) + Len(tokens2) - intersection
    IN  IF union = 0 THEN <<0, 1>> ELSE <<intersection, union>>

jaccardSimilarity(tokens1, tokens2) ==
    LET set1         == Range(tokens1)
        set2         == Range(tokens2)
        intersection == Cardinality({t \in set1 : t \in set2})
        union        == Cardinality(set1) + Cardinality(set2) - intersection
    IN  IF union = 0 THEN <<0, 1>> ELSE <<intersection, union>>

\* the fragments are those the split of line 241 gives, so the two scores
\* are taken over the same sequences
\* baseSimilarity * 0.4 + tokenSimilarity * 0.6
Blend(baseSimilarity, tokenSimilarity) ==
    <<4 * baseSimilarity[1] * tokenSimilarity[2]
        + 6 * tokenSimilarity[1] * baseSimilarity[2],
      10 * baseSimilarity[2] * tokenSimilarity[2]>>

calculateSimilarity(block1, block2) ==
    LET norm1 == NormalizedWords(block1)
        norm2 == NormalizedWords(block2)
    IN  Once2(Blend, similarityScore(norm1, norm2), similarityScore(norm1, norm2))

\* fastMode ? jaccardSimilarity(...) : calculateSimilarity(...)
Similarity(blocks, bt, bi, bj, fastMode) ==
    IF fastMode
    THEN jaccardSimilarity(bt[bi + 1], bt[bj + 1])
    ELSE calculateSimilarity(blocks[bi + 1].content, blocks[bj + 1].content)

MatchOfSecond(blocks, bi, bj, similarity) ==
    LET block1 == blocks[bi + 1]
        block2 == blocks[bj + 1]
    IN  [file1       |-> block1.file,
         file2       |-> block2.file,
         line1       |-> block1.startLine,
         line2       |-> block2.startLine,
         similarity  |-> similarity,
         patternType |-> block2.patternType,
         tokenCost   |-> block1.tokenCost + block2.tokenCost,
         linesOfCode |-> block1.linesOfCode]

\* the record pushed to duplicates (snippet left out: it enters no comparison)
Match(blocks, bi, bj, similarity) ==
    LET block1 == blocks[bi + 1]
        block2 == blocks[bj + 1]
    IN  [file1       |-> block1.file,
         file2       |-> block2.file,
         line1       |-> block1.startLine,
         line2       |-> block2.startLine,
         similarity  |-> similarity,
         patternType |-> block1.patternType,
         tokenCost   |-> block1.tokenCost + block2.tokenCost,
         linesOfCode |-> block1.linesOfCode]

-----------------------------------------------------------------------------
(* Result aggregator *)

Sign(n) == IF n > 0 THEN 1 ELSE IF n < 0 THEN 0 - 1 ELSE 0

compareMatchesNoTieBreak(a, b) ==
    IF ~SimEq(a.similarity, b.similarity)
    THEN (IF SimGt(b.similarity, a.similarity) THEN 1 ELSE 0 - 1)
    ELSE 0

\* (a, b) => b.similarity - a.similarity || b.tokenCost - a.tokenCost
compareMatches(a, b) ==
    IF ~SimEq(a.similarity, b.similarity)
    THEN (IF SimGt(b.similarity, a.similarity) THEN 1 ELSE 0 - 1)
    ELSE Sign(b.tokenCost - a.tokenCost)

InsertMatch(sorted, x) ==
    LET after == {n \in 1..Len(sorted) : compareMatches(sorted[n], x) > 0}
        at    == IF after = {} THEN Len(sorted) + 1
                 ELSE CHOOSE n \in after : \A m \in after : n <= m
    IN  SubSeq(sorted, 1, at - 1) \o <<x>> \o SubSeq(sorted, at, Len(sorted))

RECURSIVE SortMatchesFrom(_, _)
SortMatchesFrom(sorted, rest) ==
    IF rest = <<>> THEN sorted
    ELSE Once2(SortMatchesFrom, InsertMatch(sorted, Head(rest)), Tail(rest))

SortMatchesDroppedOnStop(ms) ==
    IF comparisonsBudgetExhausted THEN <<>> ELSE SortMatchesFrom(<<>>, ms)

\* duplicates.sort(...)
SortMatches(ms) == SortMatchesFrom(<<>>, ms)

-----------------------------------------------------------------------------
(* Inputs of a detectDuplicatePatterns run *)

\* two functions, the first with a blank line
TextLoadSave == <<FnLoad, Blank, RetFetch, Close, FnSave, ThisValidate, Close>>

\* one function with a comment line
TextSaveFetch == <<FnSave, Comment, RetFetch, Close>>

\* a one-line arrow function and a function of four code lines
TextArrowSave == <<Arrow, FnSave, ThisValidate, RetFetch, Close>>

FileTexts == {TextLoadSave, TextSaveFetch, TextArrowSave}

FileNames == <<"a.ts", "b.ts", "c.ts", "d.ts">>

FileLists ==
    UNION {{[n \in 1..m |-> [file |-> FileNames[n], content |-> c[n]]] :
                c \in [1..m -> FileTexts]} : m \in 1..MaxFiles}

MkOptions(minSimilarity, minLines, maxBlocks, batchSize, approx, minSharedTokens, maxCandidatesPerBlock, fastMode, maxComparisons) ==
    [minSimilarity |-> minSimilarity, minLines |-> minLines,
     maxBlocks |-> maxBlocks, batchSize |-> batchSize, approx |-> approx,
     minSharedTokens |-> minSharedTokens,
     maxCandidatesPerBlock |-> maxCandidatesPerBlock,
     fastMode |-> fastMode, maxComparisons |-> maxComparisons]

Options ==
    {MkOptions(ms, ml, mb, bs, ap[1], ap[2], ap[3], fm, mc) :
        ms \in {<<0, 1>>, <<1, 2>>},
        ml \in {1, 3},
        mb \in {BlockCap, DefaultMaxBlocks},
        bs \in {1, DefaultBatchSize},
        ap \in {<<TRUE, 1, 1>>, <<TRUE, 2, 1>>,
                <<TRUE, 1, DefaultMaxCandidatesPerBlock>>,
                <<TRUE, 2, DefaultMaxCandidatesPerBlock>>,
                <<FALSE, DefaultMinSharedTokens, DefaultMaxCandidatesPerBlock>>},
        fm \in BOOLEAN,
        mc \in (0..MaxBudget) \cup {DefaultMaxComparisons}}

-----------------------------------------------------------------------------
(* extractCodeBlocks as a process: one line per step *)

ExIdle == ExtractInit(<<>>, 1)

\* no second run, no summary, no helper call
AsideIdle ==
    /\ other = [pc |-> "off"]
    /\ summary = [made |-> FALSE]
    /\ pf = [op |-> "none"]

DetectIdle ==
    /\ pc = "off"
    /\ files = <<>>
    /\ opts = MkOptions(<<1, 1>>, 1, DefaultMaxBlocks, DefaultBatchSize, TRUE,
                        DefaultMinSharedTokens, DefaultMaxCandidatesPerBlock,
                        TRUE, DefaultMaxComparisons)
    /\ allBlocks = <<>>
    /\ blockTokens = <<>>
    /\ invertedIndex = <<>>
    /\ i = 0
    /\ candidates = <<>>
    /\ pos = 0
    /\ comparisonsProcessed = 0
    /\ comparisonsBudgetExhausted = FALSE
    /\ duplicates = <<>>
    /\ returned = <<>>
    /\ scored = <<>>

InitExtract ==
    /\ DetectIdle
    /\ AsideIdle
    /\ \E content \in SeqsUpTo(Lines, MaxLines), minLines \in 1..MaxMinLines :
          ex = ExtractInit(content, minLines)

ScanLine ==
    /\ pc = "off"
    /\ ex.i < Len(ex.lines)
    /\ ex' = ExtractLine(ex)
    /\ UNCHANGED detectVars

NextExtract == ScanLine

SpecExtract == InitExtract /\ [][NextExtract]_vars

-----------------------------------------------------------------------------
(* detectDuplicatePatterns *)

Init ==
    /\ ex = ExIdle
    /\ AsideIdle
    /\ pc = "call"
    /\ files \in FileLists
    /\ opts \in Options
    /\ allBlocks = <<>>
    /\ blockTokens = <<>>
    /\ invertedIndex = <<>>
    /\ i = 0
    /\ candidates = <<>>
    /\ pos = 0
    /\ comparisonsProcessed = 0
    /\ comparisonsBudgetExhausted = FALSE
    /\ duplicates = <<>>
    /\ returned = <<>>
    /\ scored = <<>>

BudgetReachedOffByOne ==
    opts.maxComparisons # 0 /\ comparisonsProcessed > opts.maxComparisons

\* maxComparisons && comparisonsProcessed >= maxComparisons
BudgetReached ==
    opts.maxComparisons # 0 /\ comparisonsProcessed >= opts.maxComparisons

\* lines 267-330: extraction, block cap, tokens, inverted index
Start ==
    /\ pc = "call"
    /\ allBlocks' = LimitBlocks(ExtractAll(files, opts.minLines), opts.maxBlocks)
    /\ blockTokens' = [n \in 1..Len(allBlocks') |-> tokenize(allBlocks'[n].normalized)]
    /\ invertedIndex' = BuildIndex(blockTokens', opts.approx)
    /\ i' = 0
    /\ pc' = "loop"
    /\ UNCHANGED <<ex, other, summary, pf,
                   files, opts, candidates, pos, comparisonsProcessed,
                   comparisonsBudgetExhausted, duplicates, returned, scored>>

\* line 332: the loop condition fails
LoopEnd ==
    /\ pc = "loop"
    /\ i >= Len(allBlocks)
    /\ pc' = "return"
    /\ UNCHANGED <<ex, other, summary, pf,
                   files, opts, allBlocks, blockTokens, invertedIndex, i,
                   candidates, pos, comparisonsProcessed,
                   comparisonsBudgetExhausted, duplicates, returned, scored>>

\* lines 333-336
BudgetStop ==
    /\ pc = "loop"
    /\ i < Len(allBlocks)
    /\ BudgetReached
    /\ comparisonsBudgetExhausted' = TRUE
    /\ pc' = "return"
    /\ UNCHANGED <<ex, other, summary, pf,
                   files, opts, allBlocks, blockTokens, invertedIndex, i,
                   candidates, pos, comparisonsProcessed, duplicates, returned,
                   scored>>

AtBatch == i % opts.batchSize = 0 /\ i > 0

YieldSkipsBlock ==
    /\ pc = "loop"
    /\ i < Len(allBlocks)
    /\ ~BudgetReached
    /\ AtBatch
    /\ i' = i + 1
    /\ UNCHANGED <<ex, other, summary, pf,
                   pc, files, opts, allBlocks, blockTokens, invertedIndex,
                   candidates, pos, comparisonsProcessed,
                   comparisonsBudgetExhausted, duplicates, returned, scored>>

\* lines 338-348: progress line, then await setImmediate
Yield ==
    /\ pc = "loop"
    /\ i < Len(allBlocks)
    /\ ~BudgetReached
    /\ AtBatch
    /\ pc' = "resumed"
    /\ UNCHANGED <<ex, other, summary, pf,
                   files, opts, allBlocks, blockTokens, invertedIndex, i,
                   candidates, pos, comparisonsProcessed,
                   comparisonsBudgetExhausted, duplicates, returned, scored>>

\* lines 350-370: block1 and, in approx mode, its candidate list
EnterBlock ==
    /\ \/ pc = "loop" /\ i < Len(allBlocks) /\ ~BudgetReached /\ ~AtBatch
       \/ pc = "resumed"
    /\ candidates' = IF opts.approx
                     THEN Candidates(allBlocks, blockTokens, invertedIndex, i,
                                     opts.minSharedTokens,
                                     opts.maxCandidatesPerBlock)
                     ELSE <<>>
    /\ pos' = IF opts.approx THEN 1 ELSE i + 1
    /\ pc' = "inner"
    /\ UNCHANGED <<ex, other, summary, pf,
                   files, opts, allBlocks, blockTokens, invertedIndex, i,
                   comparisonsProcessed, comparisonsBudgetExhausted,
                   duplicates, returned, scored>>

\* lines 382-397 and 413-428: score the pair and record it at the threshold
Score(bj) ==
    \E similarity \in {Similarity(allBlocks, blockTokens, i, bj, opts.fastMode)} :
        /\ scored' = Append(scored, <<i, bj>>)
        /\ duplicates' = IF SimGeq(similarity, opts.minSimilarity)
                         THEN Append(duplicates, Match(allBlocks, i, bj, similarity))
                         ELSE duplicates

InnerMore ==
    IF opts.approx THEN pos <= Len(candidates) ELSE pos < Len(allBlocks)

\* lines 373-398: one iteration of the candidate loop
CompareApprox ==
    /\ pc = "inner"
    /\ opts.approx
    /\ InnerMore
    /\ ~BudgetReached
    /\ comparisonsProcessed' = comparisonsProcessed + 1
    /\ Score(candidates[pos].j)
    /\ pos' = pos + 1
    /\ UNCHANGED <<ex, other, summary, pf,
                   pc, files, opts, allBlocks, blockTokens, invertedIndex,
                   i, candidates, comparisonsBudgetExhausted, returned>>

\* lines 401-429: one iteration of the exact loop
CompareExact ==
    /\ pc = "inner"
    /\ ~opts.approx
    /\ InnerMore
    /\ ~BudgetReached
    /\ comparisonsProcessed' = comparisonsProcessed + 1
    /\ IF sameFile(allBlocks[i + 1], allBlocks[pos + 1])
       THEN UNCHANGED <<scored, duplicates>>
       ELSE Score(pos)
    /\ pos' = pos + 1
    /\ UNCHANGED <<ex, other, summary, pf,
                   pc, files, opts, allBlocks, blockTokens, invertedIndex,
                   i, candidates, comparisonsBudgetExhausted, returned>>

\* lines 374 and 402: break out of the inner loop, on to the next block
InnerBreak ==
    /\ pc = "inner"
    /\ InnerMore
    /\ BudgetReached
    /\ i' = i + 1
    /\ pc' = "loop"
    /\ UNCHANGED <<ex, other, summary, pf,
                   files, opts, allBlocks, blockTokens, invertedIndex,
                   candidates, pos, comparisonsProcessed,
                   comparisonsBudgetExhausted, duplicates, returned, scored>>

\* the inner loop is through, on to the next block
InnerEnd ==
    /\ pc = "inner"
    /\ ~InnerMore
    /\ i' = i + 1
    /\ pc' = "loop"
    /\ UNCHANGED <<ex, other, summary, pf,
                   files, opts, allBlocks, blockTokens, invertedIndex,
                   candidates, pos, comparisonsProcessed,
                   comparisonsBudgetExhausted, duplicates, returned, scored>>

\* lines 433-440: the warning, then duplicates.sort(...) in place, returned
Return ==
    /\ pc = "return"
    /\ duplicates' = SortMatches(duplicates)
    /\ returned' = duplicates'
    /\ pc' = "done"
    /\ UNCHANGED <<ex, other, summary, pf,
                   files, opts, allBlocks, blockTokens, invertedIndex, i,
                   candidates, pos, comparisonsProcessed,
                   comparisonsBudgetExhausted, scored>>

Next ==
    \/ Start
    \/ LoopEnd
    \/ BudgetStop
    \/ Yield
    \/ EnterBlock
    \/ CompareApprox
    \/ CompareExact
    \/ InnerBreak
    \/ InnerEnd
    \/ Return

Spec == Init /\ [][Next]_vars

\* the run is one synchronous function apart from the awaited setImmediate,
\* which the event loop always resumes
FairSpec == Spec /\ WF_vars(Next)

-----------------------------------------------------------------------------
(* A run as a value: the locals of one detectDuplicatePatterns call, and   *)
(* the synchronous stretch of code from one await to the next              *)

\* lines 267-330 on a fresh call
RunCall(fs, o) ==
    LET blocks == LimitBlocks(ExtractAll(fs, o.minLines), o.maxBlocks)
        tokens == [n \in 1..Len(blocks) |-> tokenize(blocks[n].normalized)]
    IN  [pc |-> "loop", files |-> fs, opts |-> o, allBlocks |-> blocks,
         blockTokens |-> tokens,
         invertedIndex |-> BuildIndex(tokens, o.approx),
         i |-> 0, comparisonsProcessed |-> 0,
         comparisonsBudgetExhausted |-> FALSE,
         duplicates |-> <<>>, returned |-> <<>>]

\* maxComparisons && comparisonsProcessed >= maxComparisons
RunBudgetReached(r) ==
    r.opts.maxComparisons # 0 /\ r.comparisonsProcessed >= r.opts.maxComparisons

\* lines 375, 382-397 and 403, 413-428: count the pair, score it, record it
RunCompare(r, bj, skip) ==
    LET similarity == Similarity(r.allBlocks, r.blockTokens, r.i, bj,
                                 r.opts.fastMode)
    IN  [r EXCEPT
            !.comparisonsProcessed = @ + 1,
            !.duplicates =
                IF ~skip /\ SimGeq(similarity, r.opts.minSimilarity)
                THEN Append(@, Match(r.allBlocks, r.i, bj, similarity))
                ELSE @]

\* lines 373-398: the candidate loop from candidate p on
RECURSIVE RunApproxFrom(_, _, _)
RunApproxFrom(r, cands, p) ==
    IF p > Len(cands) \/ RunBudgetReached(r)
    THEN r
    ELSE RunApproxFrom(Once2(LAMBDA a, b : RunCompare(a, b, FALSE), r, cands[p].j),
                       cands, p + 1)

\* lines 401-429: the exact loop from block p on
RECURSIVE RunExactFrom(_, _)
RunExactFrom(r, p) ==
    IF p >= Len(r.allBlocks) \/ RunBudgetReached(r)
    THEN r
    ELSE RunExactFrom(
            Once2(LAMBDA a, b :
                      RunCompare(a, b, sameFile(a.allBlocks[a.i + 1],
                                                a.allBlocks[b + 1])),
                  r, p),
            p + 1)

\* lines 350-430: block i against its candidates or its later blocks, i++
RunBlock(r) ==
    LET after ==
            IF r.opts.approx
            THEN RunApproxFrom(r, Candidates(r.allBlocks, r.blockTokens,
                                             r.invertedIndex, r.i,
                                             r.opts.minSharedTokens,
                                             r.opts.maxCandidatesPerBlock), 1)
            ELSE RunExactFrom(r, r.i + 1)
    IN  [after EXCEPT !.i = @ + 1]

\* lines 433-440
RunReturn(r) ==
    LET sorted == SortMatches(r.duplicates)
    IN  [r EXCEPT !.pc = "done", !.duplicates = sorted, !.returned = sorted]

\* lines 332-348 and on: the loop from its head, up to the next await or to
\* the return
RECURSIVE RunLoop(_)
RunLoop(r) ==
    IF r.i >= Len(r.allBlocks)
    THEN RunReturn(r)
    ELSE IF RunBudgetReached(r)
    THEN RunReturn([r EXCEPT !.comparisonsBudgetExhausted = TRUE])
    ELSE IF r.i % r.opts.batchSize = 0 /\ r.i > 0
    THEN [r EXCEPT !.pc = "resumed"]
    ELSE RunLoop(Once(RunBlock, r))

\* the code a run executes between two awaits
RunSegment(r) ==
    IF r.pc = "call" THEN RunLoop(Once2(RunCall, r.files, r.opts))
    ELSE IF r.pc = "resumed" THEN RunLoop(Once(RunBlock, r))
    ELSE r

RECURSIVE RunToEnd(_)
RunToEnd(r) ==
    IF r.pc = "done" THEN r ELSE RunToEnd(Once(RunSegment, r))

\* a call awaited with nothing else on the event loop
detectDuplicatePatterns(fs, o) ==
    RunToEnd([pc |-> "call", files |-> fs, opts |-> o])

-----------------------------------------------------------------------------
(* Two runs on one event loop: while the first waits at its await, the     *)
(* second runs its next stretch                                            *)

BatchSizes == (1..MaxBatch) \cup {DefaultBatchSize}

InterleavedOptions ==
    {MkOptions(<<1, 2>>, 1, DefaultMaxBlocks, bs, ap[1], ap[2], ap[3], TRUE, mc) :
        bs \in BatchSizes,
        ap \in {<<TRUE, 1, DefaultMaxCandidatesPerBlock>>,
                <<FALSE, DefaultMinSharedTokens, DefaultMaxCandidatesPerBlock>>},
        mc \in (0..MaxBudget) \cup {DefaultMaxComparisons}}

InitInterleaved ==
    /\ ex = ExIdle
    /\ summary = [made |-> FALSE]
    /\ pf = [op |-> "none"]
    /\ pc = "call"
    /\ files \in FileLists
    /\ opts \in InterleavedOptions
    /\ other = [pc |-> "call", files |-> files,
                opts |-> [opts EXCEPT !.batchSize = 1]]
    /\ allBlocks = <<>>
    /\ blockTokens = <<>>
    /\ invertedIndex = <<>>
    /\ i = 0
    /\ candidates = <<>>
    /\ pos = 0
    /\ comparisonsProcessed = 0
    /\ comparisonsBudgetExhausted = FALSE
    /\ duplicates = <<>>
    /\ returned = <<>>
    /\ scored = <<>>

\* the first run waits at line 347; the second run, started or resumed by
\* the event loop, runs to its own await or to its return: every name it
\* assigns is a local of its own call (lines 267-331)
OtherRun ==
    /\ pc = "resumed"
    /\ other.pc \in {"call", "resumed"}
    /\ other' = RunSegment(other)
    /\ UNCHANGED <<ex, summary, pf, detectVarsOfRun>>

NextInterleaved == Next \/ OtherRun

SpecInterleaved == InitInterleaved /\ [][NextInterleaved]_vars

-----------------------------------------------------------------------------
(* categorizePattern called on its own *)

\* the substrings categorizePattern looks for (lines 58-63, 70-74, 81-84,
\* 90, 96-98, 104)
Triggers ==
    {"request", "response", "router.", "app.get", "app.post", "express",
     "ctx.body", "validate", "schema", "zod", "yup", "if", "throw",
     "return (", "jsx", "component", "props", "class ", "this.", "return ",
     "this", "new ", "function", "=>"}

\* a text that contains "this." contains "this", one that contains
\* "return (" contains "return "
WithImplied(ms) ==
    ms \cup (IF "this." \in ms THEN {"this"} ELSE {})
       \cup (IF "return (" \in ms THEN {"return "} ELSE {})

\* one-line texts into which up to MaxMarks triggers were written
MarkedTexts ==
    {<<MkLine(FALSE, 0, 0, "code", WithImplied(ms), <<>>)>> :
        ms \in {{}} \cup {{f[n] : n \in 1..MaxMarks} :
                             f \in [1..MaxMarks -> Triggers]}}

InitCategorize ==
    /\ ex = ExIdle
    /\ DetectIdle
    /\ other = [pc |-> "off"]
    /\ summary = [made |-> FALSE]
    /\ \E code \in MarkedTexts :
          pf = [op |-> "categorizePattern", code |-> code, called |-> FALSE]

Categorize ==
    /\ pf.op = "categorizePattern"
    /\ ~pf.called
    /\ pf' = [pf EXCEPT !.called = TRUE] @@ [tag |-> categorizePattern(pf.code)]
    /\ UNCHANGED <<ex, other, summary, detectVarsOfRun>>

NextCategorize == Categorize

SpecCategorize == InitCategorize /\ [][NextCategorize]_vars

-----------------------------------------------------------------------------
(* normalizeCode on a text of characters *)

\* the backquote character, which a string of this module cannot hold
Backquote == "bq"

Chars == {"/", "*", "\"", "'", Backquote, "1", "a", " ", "\n"}

IsSpace(c) == c \in {" ", "\n"}

IsDigit(c) == c = "1"

\* \w: the letters of the text and of the placeholders, and the digit
IsWord(c) == c \in {"a", "1", "S", "T", "R", "N", "U", "M"}

\* 1-based position of the first place from `from` on where `found` holds,
\* 0 if there is none
FirstFrom(t, from, found(_)) ==
    IF \E k \in from..Len(t) : found(k)
    THEN CHOOSE k \in from..Len(t) : found(k) /\ \A m \in from..(k - 1) : ~found(m)
    ELSE 0

Drop(t, n) == SubSeq(t, n + 1, Len(t))

\* .replace(/\/\/.*$/gm, ''): from two slashes up to, not including, the
\* line end
RECURSIVE StripLineComments(_)
StripLineComments(t) ==
    IF t = <<>> THEN <<>>
    ELSE IF Len(t) >= 2 /\ t[1] = "/" /\ t[2] = "/"
    THEN LET nl == FirstFrom(t, 3, LAMBDA k : t[k] = "\n")
         IN  IF nl = 0 THEN <<>> ELSE StripLineComments(Drop(t, nl - 1))
    ELSE <<t[1]>> \o StripLineComments(Tail(t))

\* .replace(/\/\*[\s\S]*?\*\//g, ''): from slash-star through the first
\* star-slash after it
RECURSIVE StripBlockComments(_)
StripBlockComments(t) ==
    IF t = <<>> THEN <<>>
    ELSE IF Len(t) >= 2 /\ t[1] = "/" /\ t[2] = "*"
    THEN LET end == FirstFrom(t, 3, LAMBDA k : k < Len(t) /\ t[k] = "*" /\ t[k + 1] = "/")
         IN  IF end = 0
             THEN <<t[1]>> \o StripBlockComments(Tail(t))
             ELSE StripBlockComments(Drop(t, end + 1))
    ELSE <<t[1]>> \o StripBlockComments(Tail(t))

PlaceholderDouble(q) == <<"\"", "S", "T", "R", "\"">>

\* the placeholders of lines 202-204
Placeholder(q) == <<q, "S", "T", "R", q>>

\* .replace(/q[^q]*q/g, 'qSTRq') for the quote character q
RECURSIVE ReplaceStrings(_, _)
ReplaceStrings(t, q) ==
    IF t = <<>> THEN <<>>
    ELSE IF t[1] = q
    THEN LET end == FirstFrom(t, 2, LAMBDA k : t[k] = q)
         IN  IF end = 0
             THEN <<t[1]>> \o ReplaceStrings(Tail(t), q)
             ELSE Placeholder(q) \o ReplaceStrings(Drop(t, end), q)
    ELSE <<t[1]>> \o ReplaceStrings(Tail(t), q)

\* .replace(/\b\d+\b/g, 'NUM'), the text read from position k on: a run of
\* digits with no word character right before it or right after it
RECURSIVE ReplaceNumbersFrom(_, _)
ReplaceNumbersFrom(t, k) ==
    IF k > Len(t) THEN <<>>
    ELSE IF IsDigit(t[k]) /\ (k = 1 \/ ~IsWord(t[k - 1]))
    THEN LET after == FirstFrom(t, k, LAMBDA n : ~IsDigit(t[n]))
             stop  == IF after = 0 THEN Len(t) + 1 ELSE after
         IN  IF stop > Len(t) \/ ~IsWord(t[stop])
             THEN <<"N", "U", "M">> \o ReplaceNumbersFrom(t, stop)
             ELSE <<t[k]>> \o ReplaceNumbersFrom(t, k + 1)
    ELSE <<t[k]>> \o ReplaceNumbersFrom(t, k + 1)

ReplaceNumbers(t) == ReplaceNumbersFrom(t, 1)

\* .replace(/\s+/g, ' ')
RECURSIVE CollapseSpace(_)
CollapseSpace(t) ==
    IF t = <<>> THEN <<>>
    ELSE IF IsSpace(t[1])
    THEN LET after == FirstFrom(t, 1, LAMBDA k : ~IsSpace(t[k]))
         IN  IF after = 0 THEN <<" ">> ELSE <<" ">> \o CollapseSpace(Drop(t, after - 1))
    ELSE <<t[1]>> \o CollapseSpace(Tail(t))

\* .trim()
Trim(t) ==
    LET first == FirstFrom(t, 1, LAMBDA k : ~IsSpace(t[k]))
    IN  IF first = 0 THEN <<>>
        ELSE SubSeq(t, first,
                    CHOOSE k \in first..Len(t) :
                        ~IsSpace(t[k]) /\ \A m \in (k + 1)..Len(t) : IsSpace(t[m]))

normalizeCode(code) ==
    Trim(CollapseSpace(ReplaceNumbers(
        ReplaceStrings(ReplaceStrings(ReplaceStrings(
            StripBlockComments(StripLineComments(code)), "\""), "'"), Backquote))))

InitNormalize ==
    /\ ex = ExIdle
    /\ DetectIdle
    /\ other = [pc |-> "off"]
    /\ summary = [made |-> FALSE]
    /\ \E code \in SeqsUpTo(Chars, MaxChars) :
          pf = [op |-> "normalizeCode", code |-> code, calls |-> 0]

\* const once = normalizeCode(code)
NormalizeOnce ==
    /\ pf.op = "normalizeCode"
    /\ pf.calls = 0
    /\ pf' = [pf EXCEPT !.calls = 1] @@ [once |-> normalizeCode(pf.code)]
    /\ UNCHANGED <<ex, other, summary, detectVarsOfRun>>

\* const twice = normalizeCode(once)
NormalizeTwice ==
    /\ pf.op = "normalizeCode"
    /\ pf.calls = 1
    /\ pf' = [pf EXCEPT !.calls = 2] @@ [twice |-> normalizeCode(pf.once)]
    /\ UNCHANGED <<ex, other, summary, detectVarsOfRun>>

NextNormalize == NormalizeOnce \/ NormalizeTwice

SpecNormalize == InitNormalize /\ [][NextNormalize]_vars

-----------------------------------------------------------------------------
(* jaccardSimilarity called on its own *)

TokenLists == SeqsUpTo({"req", "load", "save"}, MaxTokens)

Reverse(s) == [n \in 1..Len(s) |-> s[Len(s) + 1 - n]]

InitJaccard ==
    /\ ex = ExIdle
    /\ DetectIdle
    /\ other = [pc |-> "off"]
    /\ summary = [made |-> FALSE]
    /\ \E tokens1, tokens2 \in TokenLists :
          pf = [op |-> "jaccardSimilarity", tokens1 |-> tokens1,
                tokens2 |-> tokens2, called |-> FALSE]

\* the function applied to the two lists, to the lists swapped, to the first
\* list with itself, and to the first list reversed and written twice
Jaccard ==
    /\ pf.op = "jaccardSimilarity"
    /\ ~pf.called
    /\ pf' = [pf EXCEPT !.called = TRUE] @@
             [ab      |-> jaccardSimilarity(pf.tokens1, pf.tokens2),
              ba      |-> jaccardSimilarity(pf.tokens2, pf.tokens1),
              aa      |-> jaccardSimilarity(pf.tokens1, pf.tokens1),
              shuffle |-> jaccardSimilarity(Reverse(pf.tokens1) \o pf.tokens1,
                                            pf.tokens2)]
    /\ UNCHANGED <<ex, other, summary, detectVarsOfRun>>

NextJaccard == Jaccard

SpecJaccard == InitJaccard /\ [][NextJaccard]_vars

-----------------------------------------------------------------------------
(* analyzePatterns and generateSummary (src/src/index.ts) on the matches a *)
(* run returned                                                            *)

RECURSIVE Sum(_)
Sum(ns) == IF ns = <<>> THEN 0 ELSE Head(ns) + Sum(Tail(ns))

\* reduce((sum, x) => sum + cost(x), 0)
SumOf(s, cost(_)) == Sum([n \in 1..Len(s) |-> cost(s[n])])

\* lines 98-137: one AnalysisResult per file
AnalysisResult(file, dups) ==
    LET fileDuplicates ==
            SelectSeq(dups, LAMBDA dup : dup.file1 = file \/ dup.file2 = file)
    IN  [fileName |-> file,
         issues |->
            [n \in 1..Len(fileDuplicates) |->
                LET dup == fileDuplicates[n]
                IN  [patternType |-> dup.patternType,
                     similarity  |-> dup.similarity,
                     otherFile   |-> IF dup.file1 = file THEN dup.file2
                                                         ELSE dup.file1,
                     tokenCost   |-> dup.tokenCost,
                     file        |-> file,
                     line        |-> IF dup.file1 = file THEN dup.line1
                                                         ELSE dup.line2]],
         metrics |->
            [tokenCost |-> SumOf(fileDuplicates, LAMBDA dup : dup.tokenCost)]]

analyzePatterns(fs, dups) ==
    [n \in 1..Len(fs) |-> AnalysisResult(fs[n].file, dups)]

\* lines 145-199
generateSummary(results) ==
    LET allIssues == Flatten([n \in 1..Len(results) |-> results[n].issues])
    IN  [made           |-> TRUE,
         totalPatterns  |-> Len(allIssues),
         totalTokenCost |-> SumOf(results, LAMBDA r : r.metrics.tokenCost),
         topDuplicates  |-> Prefix(allIssues, 10)]

\* const summary = generateSummary(await analyzePatterns(...))
Summarize ==
    /\ pc = "done"
    /\ ~summary.made
    /\ summary' = generateSummary(analyzePatterns(files, returned))
    /\ UNCHANGED <<ex, other, pf, detectVarsOfRun>>

NextAnalyze == Next \/ Summarize

SpecAnalyze == Init /\ [][NextAnalyze]_vars

-----------------------------------------------------------------------------
(* Properties *)

\* the blocks as extracted, before the cap
Extracted == ExtractAll(files, opts.minLines)

\* 1-based position in allBlocks of the block at a location
IndexAt(file, line) ==
    CHOOSE n \in 1..Len(allBlocks) :
        allBlocks[n].file = file /\ allBlocks[n].startLine = line

Recorded == Range(duplicates) \cup Range(returned)

Started == pc \notin {"off", "call"}

\* C1: no match, recorded or returned, pairs two locations of the same file,
\* in approximate and in exact mode, whatever the options.
C1_NoSameFileMatch == \A m \in Recorded : m.file1 # m.file2

\* C1 witness: a finished run over blocks of which two share a file, with a
\* match returned.
C1_Witness ==
    /\ pc = "done"
    /\ returned # <<>>
    /\ \E a, b \in 1..Len(allBlocks) : a < b /\ allBlocks[a].file = allBlocks[b].file

\* C2: with maxComparisons = 0 no match is ever recorded.
C2_ZeroBudgetNoMatch == opts.maxComparisons = 0 => Recorded = {}

\* C3: every scored pair is scored from its lower index and once only, in
\* neither direction twice, and no two recorded matches name the same pair of
\* locations, in either direction.
C3_PairOnce ==
    /\ \A n \in 1..Len(scored) : scored[n][1] < scored[n][2]
    /\ \A n, m \in 1..Len(scored) :
          n # m => /\ scored[n] # scored[m]
                   /\ scored[n] # <<scored[m][2], scored[m][1]>>
    /\ \A n, m \in 1..Len(duplicates) :
          n # m =>
            /\ <<duplicates[n].file1, duplicates[n].line1,
                 duplicates[n].file2, duplicates[n].line2>>
               # <<duplicates[m].file1, duplicates[m].line1,
                   duplicates[m].file2, duplicates[m].line2>>
            /\ <<duplicates[n].file1, duplicates[n].line1,
                 duplicates[n].file2, duplicates[n].line2>>
               # <<duplicates[m].file2, duplicates[m].line2,
                   duplicates[m].file1, duplicates[m].line1>>

\* C3 witness: approximate mode, block i holds a token twice and so does a
\* candidate j reached through it, and the pair was recorded as a match.
C3_Witness ==
    /\ opts.approx
    /\ pc = "done"
    /\ \E m \in Range(returned) :
          LET a == IndexAt(m.file1, m.line1)
              b == IndexAt(m.file2, m.line2)
          IN  \E t \in Range(blockTokens[a]) :
                 /\ Len(Occurrences(blockTokens[a], t)) > 1
                 /\ Len(Occurrences(blockTokens[b], t)) > 1

\* rank of the n-th of the blocks bs: how many blocks go before it when the
\* larger linesOfCode comes first and, at equal linesOfCode, the earlier block
Rank(bs, n) ==
    Cardinality({m \in 1..Len(bs) :
        \/ bs[m].linesOfCode > bs[n].linesOfCode
        \/ /\ bs[m].linesOfCode = bs[n].linesOfCode
           /\ m < n})

\* C4: with more blocks than maxBlocks the blocks kept are exactly the
\* maxBlocks blocks of largest linesOfCode, the earlier block winning a tie;
\* with at most maxBlocks blocks the list and its order are unchanged.
C4_BlockCap ==
    Started =>
        LET bs == Extracted
        IN  IF Len(bs) > opts.maxBlocks
            THEN /\ Len(allBlocks) = opts.maxBlocks
                 /\ Range(allBlocks) =
                       {bs[n] : n \in {k \in 1..Len(bs) :
                                          Rank(bs, k) < opts.maxBlocks}}
            ELSE allBlocks = bs

\* C4 witness: the cap cut the list between two blocks of equal linesOfCode
\* and dropped a block extracted before one it kept.
C4_Witness ==
    /\ Started
    /\ LET bs == Extracted
       IN  /\ Len(bs) > opts.maxBlocks
           /\ \E n, m \in 1..Len(bs) :
                 /\ bs[n].linesOfCode = bs[m].linesOfCode
                 /\ Rank(bs, n) < opts.maxBlocks /\ Rank(bs, m) >= opts.maxBlocks
           /\ \E n, m \in 1..Len(bs) :
                 /\ n < m
                 /\ Rank(bs, n) >= opts.maxBlocks /\ Rank(bs, m) < opts.maxBlocks

CrossFilePairs ==
    Cardinality({p \in (1..Len(allBlocks)) \X (1..Len(allBlocks)) :
                    p[1] < p[2] /\ allBlocks[p[1]].file # allBlocks[p[2]].file})

\* C5: in exact mode, with a budget the counter never reaches, the comparisons
\* counted at the end are the cross-file block pairs.
C5_CountsCrossFilePairs ==
    (/\ pc = "done"
     /\ ~opts.approx
     /\ opts.maxComparisons # 0
     /\ comparisonsProcessed < opts.maxComparisons)
    => comparisonsProcessed = CrossFilePairs

\* C6: with a positive maxComparisons at most maxComparisons pairs are ever
\* scored, and once the counter has reached maxComparisons no step scores a
\* pair or counts a comparison.
C6_BudgetCeiling ==
    /\ [](opts.maxComparisons > 0 =>
            /\ Len(scored) <= opts.maxComparisons
            /\ comparisonsProcessed <= opts.maxComparisons)
    /\ [][(opts.maxComparisons > 0 /\ comparisonsProcessed >= opts.maxComparisons)
            => (scored' = scored /\ comparisonsProcessed' = comparisonsProcessed)]_vars

\* C6 witness: the counter has reached a positive budget, every counted pair
\* was scored, and block i still waits at the head of the loop.
C6_Witness ==
    /\ pc = "loop"
    /\ i < Len(allBlocks)
    /\ opts.maxComparisons > 0
    /\ comparisonsProcessed = opts.maxComparisons
    /\ Len(scored) = opts.maxComparisons

Occurs(s, x) == Cardinality({n \in 1..Len(s) : s[n] = x})

SameMatches(s, t) ==
    /\ Len(s) = Len(t)
    /\ \A x \in Range(s) \cup Range(t) : Occurs(s, x) = Occurs(t, x)

\* C7: every run ends; it ends with all blocks processed or stopped by the
\* budget; and what it returns is every match recorded up to then.
C7_TerminatesWithAllMatches ==
    /\ <>(pc = "done")
    /\ [](pc = "done" => (comparisonsBudgetExhausted \/ i >= Len(allBlocks)))
    /\ [][pc = "return" => (pc' = "done" /\ SameMatches(returned', duplicates))]_vars

\* C7 witness: a run the budget stopped, returned with a match it had
\* recorded before the stop.
C7_Witness ==
    /\ pc = "done"
    /\ comparisonsBudgetExhausted
    /\ i < Len(allBlocks)
    /\ returned # <<>>

\* a may stand right before b in the returned list
InOrder(a, b) ==
    \/ SimGt(a.similarity, b.similarity)
    \/ SimEq(a.similarity, b.similarity) /\ a.tokenCost >= b.tokenCost

\* C8: the returned list is sorted by similarity descending and, at equal
\* similarity, by tokenCost descending.
C8_Sorted ==
    \A n \in 1..(Len(returned) - 1) : InOrder(returned[n], returned[n + 1])

\* C8 witness: a returned list with two neighbours of different similarity
\* and two neighbours of equal similarity and different tokenCost.
C8_Witness ==
    /\ pc = "done"
    /\ \E n \in 1..(Len(returned) - 1) :
          SimGt(returned[n].similarity, returned[n + 1].similarity)
    /\ \E n \in 1..(Len(returned) - 1) :
          /\ SimEq(returned[n].similarity, returned[n + 1].similarity)
          /\ returned[n].tokenCost > returned[n + 1].tokenCost

\* C9: every block extractCodeBlocks emits has linesOfCode >= minLines.
C9_LinesOfCodeAtLeastMinLines ==
    \A n \in 1..Len(ex.blocks) : ex.blocks[n].linesOfCode >= ex.minLines

\* C10 as stated: a match of blocks i < j carries the patternType and the
\* tokenCost of block i.
C10_TypeAndCostOfFirst ==
    \A m \in Recorded :
        LET a == IndexAt(m.file1, m.line1)
            b == IndexAt(m.file2, m.line2)
        IN  /\ a < b
            /\ m.patternType = allBlocks[a].patternType
            /\ m.tokenCost = allBlocks[a].tokenCost

\* C10 amended: a match of blocks i < j carries the patternType of block i,
\* and its tokenCost is the sum of the tokenCosts of block i and block j.
C10_TypeOfFirstCostOfBoth ==
    \A m \in Recorded :
        LET a == IndexAt(m.file1, m.line1)
            b == IndexAt(m.file2, m.line2)
        IN  /\ a < b
            /\ m.patternType = allBlocks[a].patternType
            /\ m.tokenCost = allBlocks[a].tokenCost + allBlocks[b].tokenCost

\* C10 witness: a recorded match whose second block has another patternType
\* than its first and a tokenCost above zero.
C10_Witness ==
    \E m \in Range(duplicates) :
        LET a == IndexAt(m.file1, m.line1)
            b == IndexAt(m.file2, m.line2)
        IN  /\ allBlocks[a].patternType # allBlocks[b].patternType
            /\ allBlocks[b].tokenCost > 0

\* C11: the returned list is the same for every batchSize, the default
\* stride under which no await happens included, and no step of a second
\* run taken while the first waits at its await changes the first run's
\* blocks, tokens, index, comparison counter or matches.
C11_YieldsDoNotAffectResults ==
    /\ [](pc = "done" =>
            \A bs \in BatchSizes :
                returned = detectDuplicatePatterns(files,
                               [opts EXCEPT !.batchSize = bs]).returned)
    /\ [][other' # other =>
            UNCHANGED <<allBlocks, blockTokens, invertedIndex,
                        comparisonsProcessed, duplicates>>]_vars

\* C11 witness: a run of stride 1 over three blocks or more that returned a
\* match, with a second run that began and ended inside the first's awaits.
C11_Witness ==
    /\ pc = "done"
    /\ opts.batchSize = 1
    /\ Len(allBlocks) >= 3
    /\ returned # <<>>
    /\ other.pc = "done"
    /\ other.returned # <<>>

\* the rule of a tag holds of a text (lines 57-64, 69-75, 80-85, 90, 95-99,
\* 104)
RuleHolds(tag, code) ==
    CASE tag = "api-handler" ->
            \/ Includes(code, "request") /\ Includes(code, "response")
            \/ \E t \in {"router.", "app.get", "app.post", "express", "ctx.body"} :
                  Includes(code, t)
      [] tag = "validator" ->
            \/ \E t \in {"validate", "schema", "zod", "yup"} : Includes(code, t)
            \/ Includes(code, "if") /\ Includes(code, "throw")
      [] tag = "component" ->
            \E t \in {"return (", "jsx", "component", "props"} : Includes(code, t)
      [] tag = "class-method" ->
            Includes(code, "class ") \/ Includes(code, "this.")
      [] tag = "utility" ->
            /\ Includes(code, "return ")
            /\ ~Includes(code, "this")
            /\ ~Includes(code, "new ")
      [] tag = "function" ->
            Includes(code, "function") \/ Includes(code, "=>")
      [] OTHER -> TRUE

ChainOrder ==
    <<"api-handler", "validator", "component", "class-method", "utility",
      "function", "unknown">>

\* C12: categorizePattern returns the tag of the first rule, in the order
\* api-handler, validator, component, class-method, utility, function,
\* unknown, that holds of the text; so validate with this. and no api-handler
\* trigger gives validator, and request with response gives api-handler
\* whatever else the text contains.
C12_FirstMatchWins ==
    (pf.op = "categorizePattern" /\ pf.called) =>
        /\ \E n \in 1..Len(ChainOrder) :
              /\ pf.tag = ChainOrder[n]
              /\ RuleHolds(ChainOrder[n], pf.code)
              /\ \A m \in 1..(n - 1) : ~RuleHolds(ChainOrder[m], pf.code)
        /\ (/\ Includes(pf.code, "validate")
            /\ Includes(pf.code, "this.")
            /\ ~RuleHolds("api-handler", pf.code)) => pf.tag = "validator"
        /\ (Includes(pf.code, "request") /\ Includes(pf.code, "response"))
              => pf.tag = "api-handler"

\* C12 witness: a text with validate, this. and a third trigger, classified.
C12_Witness ==
    /\ pf.op = "categorizePattern"
    /\ pf.called
    /\ Includes(pf.code, "validate")
    /\ Includes(pf.code, "this.")
    /\ Includes(pf.code, "return (")
    /\ pf.tag = "validator"

\* C13: normalizeCode is idempotent: normalizing a normalized text gives the
\* same text, whatever comment markers, quotes of the three kinds and digits
\* the text nests or puts side by side.
C13_NormalizeIdempotent ==
    (pf.op = "normalizeCode" /\ pf.calls = 2) => pf.twice = pf.once

\* C13 witness: a double-quoted string that holds a single quote and a
\* digit, normalized twice, the first call having replaced it.
C13_Witness ==
    /\ pf.op = "normalizeCode"
    /\ pf.calls = 2
    /\ pf.code = <<"\"", "'", "1", "\"">>
    /\ pf.once = <<"\"", "S", "T", "R", "\"">>

\* C14: jaccardSimilarity is symmetric, is 1 on a non-empty list with
\* itself, is 0 on two empty lists, lies in [0, 1], and is the ratio of the
\* common distinct tokens to all distinct tokens, so that neither the order
\* nor the repetition of tokens changes it.
C14_JaccardOfSets ==
    (pf.op = "jaccardSimilarity" /\ pf.called) =>
        LET set1 == Range(pf.tokens1)
            set2 == Range(pf.tokens2)
        IN  /\ SimEq(pf.ab, pf.ba)
            /\ pf.tokens1 # <<>> => SimEq(pf.aa, <<1, 1>>)
            /\ (pf.tokens1 = <<>> /\ pf.tokens2 = <<>>) => SimEq(pf.ab, <<0, 1>>)
            /\ pf.ab[2] > 0 /\ 0 <= pf.ab[1] /\ pf.ab[1] <= pf.ab[2]
            /\ set1 \cup set2 # {} =>
                  SimEq(pf.ab, <<Cardinality(set1 \cap set2),
                                 Cardinality(set1 \cup set2)>>)
            /\ SimEq(pf.shuffle, pf.ab)

\* C14 witness: a list with a repeated token against a list that shares one
\* token with it and has one of its own.
C14_Witness ==
    /\ pf.op = "jaccardSimilarity"
    /\ pf.called
    /\ pf.tokens1 = <<"req", "load", "req">>
    /\ pf.tokens2 = <<"save", "req">>
    /\ pf.ab = <<1, 3>>

\* C15: totalPatterns of the summary is the number of matches the run
\* returned, and totalTokenCost is the sum of their token costs.
C15_SummaryCountsMatchesOnce ==
    summary.made =>
        /\ summary.totalPatterns = Len(returned)
        /\ summary.totalTokenCost = SumOf(returned, LAMBDA m : m.tokenCost)

\* the pairs the inner loops of a run go through when no budget stops them:
\* every selected candidate pair in approximate mode, every pair i < j in
\* exact mode
PairsToExamine ==
    IF opts.approx
    THEN Sum([n \in 1..Len(allBlocks) |->
                Len(Candidates(allBlocks, blockTokens, invertedIndex, n - 1,
                               opts.minSharedTokens,
                               opts.maxCandidatesPerBlock))])
    ELSE (Len(allBlocks) * (Len(allBlocks) - 1)) \div 2

\* each pass of an inner loop counts one comparison, so the pairs gone
\* through are comparisonsProcessed
PairLeftUnexamined == comparisonsProcessed < PairsToExamine

\* C16: a finished run reports the budget warning exactly when a pair was
\* left unexamined: whenever one was skipped, and never when every pair was
\* examined, also when the count ended equal to maxComparisons.
C16_WarningIffPairSkipped ==
    pc = "done" => (comparisonsBudgetExhausted <=> PairLeftUnexamined)

\* C17: in approximate mode the shared count of a candidate j of block i is
\* the number of distinct tokens the two blocks have in common, a token
\* repeated in either block counted once.
C17_SharedCountsDistinctTokens ==
    (pc = "inner" /\ opts.approx) =>
        \A k \in 1..Len(candidates) :
            candidates[k].shared =
                Cardinality(Range(blockTokens[i + 1])
                              \cap Range(blockTokens[candidates[k].j + 1]))

\* number of '{' and of '}' characters of a sequence of lines
Opens(ls) == Sum([n \in 1..Len(ls) |-> ls[n].open])

Closes(ls) == Sum([n \in 1..Len(ls) |-> ls[n].close])

\* C18: every block extractCodeBlocks emits is a run of consecutive lines of
\* the file, from its startLine on, with as many '{' as '}' characters.
C18_BlocksBraceBalanced ==
    \A n \in 1..Len(ex.blocks) :
        LET block == ex.blocks[n]
        IN  /\ block.content =
                  SubSeq(ex.lines, block.startLine,
                         block.startLine + Len(block.content) - 1)
            /\ Opens(block.content) = Closes(block.content)

\* the run on the same files with the same options but approx = false
ExactRun ==
    RunToEnd([pc |-> "call", files |-> files,
              opts |-> [opts EXCEPT !.approx = FALSE]])

\* C19: when the budget is reached neither by the approximate run nor by the
\* exact run on the same files and options, every match the approximate run
\* returns, with its similarity, files and lines, is a match the exact run
\* returns.
C19_ApproxSubsetOfExact ==
    (pc = "done" /\ opts.approx /\ ~BudgetReached) =>
        \A exact \in {ExactRun} :
            ~RunBudgetReached(exact) =>
                Range(returned) \subseteq Range(exact.returned)

\* C19 witness: an approximate run, its budget not reached, that returned a
\* match and missed one the exact run returns.
C19_Witness ==
    /\ pc = "done"
    /\ opts.approx
    /\ ~BudgetReached
    /\ returned # <<>>
    /\ ~RunBudgetReached(ExactRun)
    /\ Range(returned) # Range(ExactRun.returned)

====
